---- MODULE Spec2Model ----
(***************************************************************************)
(* A model of cfst-win-GUI.py: the launch and completion detection of the  *)
(* external cfst.exe process (on_scan, on_speed, the poll thread, the      *)
(* 300 ms timer), the column resolution of _load_result_into_table, the    *)
(* region aggregation of on_stat and the export of on_region_double.       *)
(*                                                                         *)
(* Text is modelled as a sequence of characters, each character a string   *)
(* of length one; a character outside ASCII is written by its code point   *)
(* ("U5730").                                                              *)
(***************************************************************************)
EXTENDS Integers, Sequences, FiniteSets

VARIABLES
    btn_scan,         \* btn_scan.isEnabled()
    btn_speed,        \* btn_speed.isEnabled()
    current_process,  \* self._current_process: 0 is None, else a process id
    ui_timer,         \* self._ui_timer: "none", or the handler whose ui_check it runs
    procs,            \* the launched processes, their poll threads, on_done runs
    popen_calls,      \* the number of subprocess.Popen calls made
    dialog,           \* the modal QMessageBox that is open, "none" when none
    status,           \* the status bar's message
    cfst_exe,         \* cfst.exe is a file of the working directory
    ip_txt,           \* ip.txt is a file of the working directory
    region_csv,       \* region.csv: NoFile, or its rows
    region_ok,        \* region_ok.txt: NoFile, or its lines
    result_csv,       \* result.csv: NoFile, or its rows
    tbl_result,       \* the rows of the result table
    indices,          \* the column indices _load_result_into_table resolved last
    lst_regions,      \* the items of the region list
    exported          \* the region item exported to region_ok.txt last, 0 when none

vars == << btn_scan, btn_speed, current_process, ui_timer, procs, popen_calls,
           dialog, status, cfst_exe, ip_txt, region_csv, region_ok, result_csv,
           tbl_result, indices, lst_regions, exported >>

\* A file of the working directory: absent, or there with its content.
NoFile == [exists |-> FALSE, content |-> << >>]

File(content) == [exists |-> TRUE, content |-> content]

------------------------------------------------------------------------------
(* Text *)

Digits == << "0", "1", "2", "3", "4", "5", "6", "7", "8", "9" >>

UpperCase == << "A", "B", "C", "D", "E", "F", "G", "H", "I", "J", "K", "L", "M",
                "N", "O", "P", "Q", "R", "S", "T", "U", "V", "W", "X", "Y", "Z" >>

LowerCase == << "a", "b", "c", "d", "e", "f", "g", "h", "i", "j", "k", "l", "m",
                "n", "o", "p", "q", "r", "s", "t", "u", "v", "w", "x", "y", "z" >>

\* The ideographs of the header aliases, in code point order.
Ideographs == << "U4E0B", "U533A", "U5730", "U5740", "U5747", "U5E73", "U5EA6",
                 "U5EF6", "U65F6", "U7801", "U8F7D", "U8FDF", "U901F" >>

\* The characters of the model in code point order: Python compares strings
\* character by character, by code point.
CodePoints == << " ", "(", ")", ",", "-", ".", "/" >> \o Digits \o << ":" >>
              \o UpperCase \o << "_" >> \o LowerCase \o Ideographs

Range(f) == { f[i] : i \in DOMAIN f }

\* The position of each character in code point order.
ord_table == [c \in Range(CodePoints) |-> CHOOSE i \in 1..Len(CodePoints) : CodePoints[i] = c]

Ord(c) == ord_table[c]

DigitChars == Range(Digits)

isdigit_char(c) == c \in DigitChars

\* The characters str.isalnum() accepts: letters (ideographs are letters) and digits.
AlnumChars == Range(Digits) \cup Range(UpperCase) \cup Range(LowerCase) \cup Range(Ideographs)

isalnum_char(c) == c \in AlnumChars

\* The lower case letter of each upper case letter, and the reverse.
lower_table == [c \in Range(UpperCase) |->
                   LowerCase[CHOOSE i \in 1..Len(UpperCase) : UpperCase[i] = c]]

upper_table == [c \in Range(LowerCase) |->
                   UpperCase[CHOOSE i \in 1..Len(LowerCase) : LowerCase[i] = c]]

lower_char(c) == IF c \in DOMAIN lower_table THEN lower_table[c] ELSE c

upper_char(c) == IF c \in DOMAIN upper_table THEN upper_table[c] ELSE c

lower(s) == [i \in 1..Len(s) |-> lower_char(s[i])]

upper(s) == [i \in 1..Len(s) |-> upper_char(s[i])]

\* str.lstrip() and str.rstrip() of blanks.
RECURSIVE lstrip(_)
lstrip(s) == IF s # << >> /\ s[1] = " " THEN lstrip(Tail(s)) ELSE s

RECURSIVE rstrip(_)
rstrip(s) == IF s # << >> /\ s[Len(s)] = " " THEN rstrip(SubSeq(s, 1, Len(s) - 1)) ELSE s

\* str.strip(): the text without its leading and trailing blanks.
strip(s) == rstrip(lstrip(s))

\* Python's "sub in s".
contains(s, sub) ==
    \E i \in 0..(Len(s) - Len(sub)) : \A j \in 1..Len(sub) : s[i + j] = sub[j]

\* str.split(sep) for a separator of one character: empty fields are kept.
\* split_from carries the field read so far.
RECURSIVE split_from(_, _, _)
split_from(s, sep, field) ==
    IF s = << >> THEN << field >>
    ELSE IF s[1] = sep THEN << field >> \o split_from(Tail(s), sep, << >>)
    ELSE split_from(Tail(s), sep, Append(field, s[1]))

split(s, sep) == split_from(s, sep, << >>)

\* str.isdigit(): not empty, digits only.
isdigit(s) == Len(s) > 0 /\ \A i \in 1..Len(s) : isdigit_char(s[i])

\* int(s) of a string of digits.
RECURSIVE int(_)
int(s) ==
    IF Len(s) = 0 THEN 0
    ELSE 10 * int(SubSeq(s, 1, Len(s) - 1))
         + ((CHOOSE i \in 1..Len(Digits) : Digits[i] = s[Len(s)]) - 1)

\* Python's s < t on strings.
RECURSIVE str_lt(_, _)
str_lt(s, t) ==
    IF Len(t) = 0 THEN FALSE
    ELSE IF Len(s) = 0 THEN TRUE
    ELSE IF s[1] = t[1] THEN str_lt(Tail(s), Tail(t))
    ELSE Ord(s[1]) < Ord(t[1])

looks_like_ip(s0) ==
    LET s     == strip(s0)
        parts == split(s, ".")
    IN  \/ /\ Len(parts) = 4
           /\ \A i \in 1..4 : isdigit(parts[i]) /\ int(parts[i]) <= 255
        \/ /\ \E i \in 1..Len(s) : s[i] = ":"
           /\ LET segs == split(s, ":")
              IN  \A i \in 1..Len(segs) : Len(segs[i]) <= 4

CODE_TO_COUNTRY == <<
    [code |-> <<"S", "J", "C">>,
     country |-> <<"U7F8E", "U56FD", " ", "(", "U5723", "U4F55", "U585E", ")">>],
    [code |-> <<"S", "F", "O">>,
     country |-> <<"U7F8E", "U56FD", " ", "(", "U65E7", "U91D1", "U5C71", ")">>],
    [code |-> <<"L", "A", "X">>,
     country |-> <<"U7F8E", "U56FD", " ", "(", "U6D1B", "U6749", "U77F6", ")">>],
    [code |-> <<"O", "R", "D">>,
     country |-> <<"U7F8E", "U56FD", " ", "(", "U829D", "U52A0", "U54E5", ")">>],
    [code |-> <<"J", "F", "K">>,
     country |-> <<"U7F8E", "U56FD", " ", "(", "U7EBD", "U7EA6", ")">>],
    [code |-> <<"D", "E", "N">>,
     country |-> <<"U7F8E", "U56FD", " ", "(", "U4E39", "U4F5B", ")">>],
    [code |-> <<"S", "E", "A">>,
     country |-> <<"U7F8E", "U56FD", " ", "(", "U897F", "U96C5", "U56FE", ")">>],
    [code |-> <<"E", "W", "R">>,
     country |-> <<"U7F8E", "U56FD", " ", "(", "U7EBD", "U74E6", "U514B", "/", "N", "e", "w", "a", "r", "k", ")">>],
    [code |-> <<"I", "A", "D">>,
     country |-> <<"U7F8E", "U56FD", " ", "(", "U534E", "U76DB", "U987F", " ", "D", "u", "l", "l", "e", "s", ")">>],
    [code |-> <<"B", "O", "S">>,
     country |-> <<"U7F8E", "U56FD", " ", "(", "U6CE2", "U58EB", "U987F", ")">>],
    [code |-> <<"M", "I", "A">>,
     country |-> <<"U7F8E", "U56FD", " ", "(", "U8FC8", "U963F", "U5BC6", ")">>],
    [code |-> <<"D", "F", "W">>,
     country |-> <<"U7F8E", "U56FD", " ", "(", "U8FBE", "U62C9", "U65AF", "/", "F", "o", "r", "t", " ", "W", "o", "r", "t", "h", ")">>],
    [code |-> <<"A", "T", "L">>,
     country |-> <<"U7F8E", "U56FD", " ", "(", "U4E9A", "U7279", "U5170", "U5927", ")">>],
    [code |-> <<"P", "H", "X">>,
     country |-> <<"U7F8E", "U56FD", " ", "(", "U83F2", "U5C3C", "U514B", "U65AF", ")">>],
    [code |-> <<"C", "L", "T">>,
     country |-> <<"U7F8E", "U56FD", " ", "(", "U590F", "U6D1B", "U7279", ")">>],
    [code |-> <<"M", "S", "P">>,
     country |-> <<"U7F8E", "U56FD", " ", "(", "U660E", "U5C3C", "U963F", "U6CE2", "U5229", "U65AF", ")">>],
    [code |-> <<"S", "L", "C">>,
     country |-> <<"U7F8E", "U56FD", " ", "(", "U76D0", "U6E56", "U57CE", ")">>],
    [code |-> <<"T", "P", "A">>,
     country |-> <<"U7F8E", "U56FD", " ", "(", "U5766", "U5E15", ")">>],
    [code |-> <<"N", "R", "T">>,
     country |-> <<"U65E5", "U672C", " ", "(", "U6210", "U7530", ")">>],
    [code |-> <<"H", "N", "D">>,
     country |-> <<"U65E5", "U672C", " ", "(", "U7FBD", "U7530", ")">>],
    [code |-> <<"K", "I", "X">>,
     country |-> <<"U65E5", "U672C", " ", "(", "U5173", "U897F", ")">>],
    [code |-> <<"F", "U", "K">>,
     country |-> <<"U65E5", "U672C", " ", "(", "U798F", "U5188", ")">>],
    [code |-> <<"H", "K", "G">>,
     country |-> <<"U4E2D", "U56FD", " ", "(", "U9999", "U6E2F", ")">>],
    [code |-> <<"T", "P", "E">>,
     country |-> <<"U4E2D", "U56FD", " ", "(", "U53F0", "U6E7E", "U53F0", "U5317", ")">>],
    [code |-> <<"K", "H", "H">>,
     country |-> <<"U4E2D", "U56FD", " ", "(", "U53F0", "U6E7E", "U9AD8", "U96C4", ")">>],
    [code |-> <<"L", "H", "R">>,
     country |-> <<"U82F1", "U56FD", " ", "(", "U4F26", "U6566", "U5E0C", "U601D", "U7F57", ")">>],
    [code |-> <<"L", "G", "W">>,
     country |-> <<"U82F1", "U56FD", " ", "(", "U4F26", "U6566", "U76D6", "U7279", "U5A01", "U514B", ")">>],
    [code |-> <<"C", "D", "G">>,
     country |-> <<"U6CD5", "U56FD", " ", "(", "U5DF4", "U9ECE", "U6234", "U9AD8", "U4E50", ")">>],
    [code |-> <<"O", "R", "Y">>,
     country |-> <<"U6CD5", "U56FD", " ", "(", "U5DF4", "U9ECE", "U5965", "U5229", ")">>],
    [code |-> <<"F", "R", "A">>,
     country |-> <<"U5FB7", "U56FD", " ", "(", "U6CD5", "U5170", "U514B", "U798F", ")">>],
    [code |-> <<"M", "U", "C">>,
     country |-> <<"U5FB7", "U56FD", " ", "(", "U6155", "U5C3C", "U9ED1", ")">>],
    [code |-> <<"A", "M", "S">>,
     country |-> <<"U8377", "U5170", " ", "(", "U963F", "U59C6", "U65AF", "U7279", "U4E39", ")">>],
    [code |-> <<"S", "Y", "D">>,
     country |-> <<"U6FB3", "U5927", "U5229", "U4E9A", " ", "(", "U6089", "U5C3C", ")">>],
    [code |-> <<"M", "E", "L">>,
     country |-> <<"U6FB3", "U5927", "U5229", "U4E9A", " ", "(", "U58A8", "U5C14", "U672C", ")">>],
    [code |-> <<"B", "N", "E">>,
     country |-> <<"U6FB3", "U5927", "U5229", "U4E9A", " ", "(", "U5E03", "U91CC", "U65AF", "U73ED", ")">>],
    [code |-> <<"E", "Z", "E">>,
     country |-> <<"U963F", "U6839", "U5EF7", " ", "(", "U5E03", "U5B9C", "U8BFA", "U65AF", "U827E", "U5229", "U65AF", ")">>],
    [code |-> <<"G", "R", "U">>,
     country |-> <<"U5DF4", "U897F", " ", "(", "U5723", "U4FDD", "U7F57", ")">>],
    [code |-> <<"D", "X", "B">>,
     country |-> <<"U963F", "U8054", "U914B", " ", "(", "U8FEA", "U62DC", ")">>],
    [code |-> <<"A", "U", "H">>,
     country |-> <<"U963F", "U8054", "U914B", " ", "(", "U963F", "U5E03", "U624E", "U6BD4", ")">>],
    [code |-> <<"S", "I", "N">>,
     country |-> <<"U65B0", "U52A0", "U5761">>],
    [code |-> <<"I", "C", "N">>,
     country |-> <<"U97E9", "U56FD", " ", "(", "U4EC1", "U5DDD", ")">>],
    [code |-> <<"I", "S", "T">>,
     country |-> <<"U571F", "U8033", "U5176", " ", "(", "U4F0A", "U65AF", "U5766", "U5E03", "U5C14", ")">>],
    [code |-> <<"M", "A", "D">>,
     country |-> <<"U897F", "U73ED", "U7259", " ", "(", "U9A6C", "U5FB7", "U91CC", "UFF09">>],
    [code |-> <<"Y", "Y", "Z">>,
     country |-> <<"U52A0", "U62FF", "U5927", " ", "(", "U591A", "U4F26", "U591A", "UFF09">>] >>

\* The dict by its keys.
country_table ==
    [code \in { CODE_TO_COUNTRY[i].code : i \in 1..Len(CODE_TO_COUNTRY) } |->
        CODE_TO_COUNTRY[CHOOSE i \in 1..Len(CODE_TO_COUNTRY) :
                            CODE_TO_COUNTRY[i].code = code].country]

\* CODE_TO_COUNTRY.get(code.upper(), code)
country_lookup(key, default) ==
    IF key \in DOMAIN country_table THEN country_table[key] ELSE default

country_of(code) == country_lookup(upper(code), code)

------------------------------------------------------------------------------
(* _load_result_into_table: a file is a sequence of rows, a row the sequence *)
(* of cells csv.reader splits a line into; a blank line is the empty row.   *)

MAX_DISPLAY_ROWS == 10

SAMPLE_ROWS == 10

FALLBACK_IP == 0

FALLBACK_AVG_RTT == 4

FALLBACK_DOWN_MB == 5

FALLBACK_REGION == 6

Keys == << "ip", "avg_rtt", "down_mb", "region" >>

col_map == [
    ip |-> <<
        <<"i", "p", " ", "U5730", "U5740">>,
        <<"i", "p", "U5730", "U5740">>,
        <<"i", "p">>,
        <<"a", "d", "d", "r", "e", "s", "s">>,
        <<"h", "o", "s", "t">> >>,
    avg_rtt |-> <<
        <<"U5E73", "U5747", "U5EF6", "U8FDF">>,
        <<"U5E73", "U5747", "U5EF6", "U65F6">>,
        <<"a", "v", "g">>,
        <<"a", "v", "g", "_", "r", "t", "t">>,
        <<"l", "a", "t", "e", "n", "c", "y">>,
        <<"r", "t", "t">>,
        <<"U5E73", "U5747", "U5EF6", "U8FDF", "(", "m", "s", ")">> >>,
    down_mb |-> <<
        <<"U4E0B", "U8F7D", "U901F", "U5EA6", "(", "m", "b", "/", "s", ")">>,
        <<"U4E0B", "U8F7D", "U901F", "U5EA6">>,
        <<"d", "o", "w", "n", "l", "o", "a", "d">>,
        <<"d", "o", "w", "n", "l", "o", "a", "d", " ", "s", "p", "e", "e", "d">>,
        <<"d", "o", "w", "n", "l", "o", "a", "d", "_", "m", "b">>,
        <<"U4E0B", "U8F7D", "U901F", "U5EA6", "(", "M", "B", "/", "s", ")">> >>,
    region |-> <<
        <<"U5730", "U533A", "U7801">>,
        <<"U5730", "U533A">>,
        <<"r", "e", "g", "i", "o", "n">>,
        <<"c", "o", "l", "o">>,
        <<"c", "f", "c", "o", "l", "o">>,
        <<"p", "l", "a", "c", "e">>,
        <<"c", "o", "u", "n", "t", "r", "y">> >> ]

Min(a, b) == IF a <= b THEN a ELSE b

MaxOf(S) == CHOOSE m \in S : \A x \in S : x <= m

MinOf(S) == CHOOSE m \in S : \A x \in S : m <= x

\* The widest row's cell count: max(len(r) for r in rows).
max_len(rows) == MaxOf({ Len(rows[i]) : i \in 1..Len(rows) })

\* any(cell.strip() for cell in r)
any_cell(r) == \E i \in 1..Len(r) : strip(r[i]) # << >>

\* The lines that pass "if ln.strip()": a blank line parses to no cell, or to
\* one cell of blanks.
nonblank_lines(file) ==
    SelectSeq(file, LAMBDA r : ~(Len(r) = 0 \/ (Len(r) = 1 /\ strip(r[1]) = << >>)))

valid_rows(file) == SelectSeq(nonblank_lines(file), any_cell)

\* vv = v.lower(), for every alias of every field.
col_map_lower ==
    [key \in DOMAIN col_map |->
        [k \in 1..Len(col_map[key]) |-> lower(col_map[key][k])]]

\* A header cell matches a field when one of its aliases, lowered, is in it.
header_matches(h, variants) ==
    LET hs == lower(strip(h))
    IN  \E k \in 1..Len(variants) : contains(hs, variants[k])

\* The first zero-based column of the header that matches the field, -1
\* when none does.
first_header_hit(header, key) ==
    LET hit == { i \in 0..(Len(header) - 1) : header_matches(header[i + 1], col_map_lower[key]) }
    IN  IF hit = {} THEN -1 ELSE MinOf(hit)

\* The dict of the fields that have a column.
found_indices(first) == [k \in { k \in Range(Keys) : first[k] # -1 } |-> first[k]]

\* indices after the header scan: the fields a header cell matches, each at
\* its first such cell.
header_indices(header) ==
    found_indices([k \in Range(Keys) |-> first_header_hit(header, k)])

\* rows[start:start+n], start counted from zero.
slice(rows, start, n) ==
    IF start >= Len(rows) THEN << >>
    ELSE SubSeq(rows, start + 1, Min(Len(rows), start + n))

\* sniff_hits asking every sampled row, not one, for a cell that looks like an IP.
sniff_hits_every_row(sample_rows, header) ==
    LET cols == IF sample_rows # << >> THEN max_len(sample_rows) ELSE Len(header)
    IN  { c \in 0..(cols - 1) :
            \A j \in 1..Len(sample_rows) :
                c < Len(sample_rows[j]) /\ looks_like_ip(sample_rows[j][c + 1]) }

\* The columns the content scan of the sampled rows stops at: a sampled row
\* has a cell there that looks like an IP.
sniff_hits(sample_rows, header) ==
    LET cols == IF sample_rows # << >> THEN max_len(sample_rows) ELSE Len(header)
    IN  { c \in 0..(cols - 1) :
            \E j \in 1..Len(sample_rows) :
                c < Len(sample_rows[j]) /\ looks_like_ip(sample_rows[j][c + 1]) }

lowest_or_none(columns) == IF columns = {} THEN -1 ELSE MinOf(columns)

\* indices["ip"] after the content scan, -1 while still unresolved.
sniff_ip(sample_rows, header) == lowest_or_none(sniff_hits(sample_rows, header))

\* fallback_index without the clamp to the widest row.
fallback_index_unclamped(key, num_cols) ==
    CASE key = "ip"      -> FALLBACK_IP
      [] key = "avg_rtt" -> FALLBACK_AVG_RTT
      [] key = "down_mb" -> FALLBACK_DOWN_MB
      [] key = "region"  -> FALLBACK_REGION

fallback_index(key, num_cols) ==
    CASE key = "ip"      -> FALLBACK_IP
      [] key = "avg_rtt" -> Min(FALLBACK_AVG_RTT, num_cols - 1)
      [] key = "down_mb" -> Min(FALLBACK_DOWN_MB, num_cols - 1)
      [] key = "region"  -> Min(FALLBACK_REGION, num_cols - 1)

\* Where each index came from: the header, the content scan, the fallback.
index_origin(rows, key) ==
    LET hdr    == header_indices(rows[1])
        start  == IF DOMAIN hdr # {} THEN 1 ELSE 0
        sample == slice(rows, start, SAMPLE_ROWS)
    IN  IF key \in DOMAIN hdr THEN "header"
        ELSE IF key = "ip" /\ sniff_ip(sample, rows[1]) # -1 THEN "sniff"
        ELSE "fallback"

\* start_row: 1 when a field resolved from the header.
start_row_of(rows) == IF DOMAIN header_indices(rows[1]) # {} THEN 1 ELSE 0

\* The complete indices of a non-empty row set.
resolve_indices(rows) ==
    LET hdr    == header_indices(rows[1])
        start  == start_row_of(rows)
        sample == slice(rows, start, SAMPLE_ROWS)
        sniff  == sniff_ip(sample, rows[1])
    IN  [k \in Range(Keys) |->
            IF k \in DOMAIN hdr THEN hdr[k]
            ELSE IF k = "ip" /\ sniff # -1 THEN sniff
            ELSE fallback_index(k, max_len(rows))]

safe_get(r, idx) == IF idx < Len(r) THEN strip(r[idx + 1]) ELSE << >>

\* The first cell of the row that looks like an IP, stripped; empty if none.
first_ip_cell(r) ==
    LET hit == { i \in 1..Len(r) : looks_like_ip(r[i]) }
    IN  IF hit = {} THEN << >> ELSE strip(r[MinOf(hit)])

\* One table row. The table shows avg_raw and down_raw through
\* _normalize_avg and _normalize_down, which the model leaves as the raw text.
table_row(r, idx) ==
    [ip       |-> IF safe_get(r, idx["ip"]) # << >> THEN safe_get(r, idx["ip"])
                  ELSE first_ip_cell(r),
     avg_raw  |-> safe_get(r, idx["avg_rtt"]),
     down_raw |-> safe_get(r, idx["down_mb"]),
     region   |-> safe_get(r, idx["region"])]

\* What _load_result_into_table leaves: the table, the status message, and
\* the resolved indices (those of the last resolution when it returns early).
\* readable is whether the file could be opened and read.
load_result(file, readable, old_indices) ==
    IF file = NoFile
    THEN [tbl |-> << >>, status |-> "result_not_found", indices |-> old_indices]
    ELSE IF ~readable
    THEN [tbl |-> << >>, status |-> "result_read_failed", indices |-> old_indices]
    ELSE IF nonblank_lines(file.content) = << >>
    THEN [tbl |-> << >>, status |-> "result_empty", indices |-> old_indices]
    ELSE IF valid_rows(file.content) = << >>
    THEN [tbl |-> << >>, status |-> "no_valid_rows", indices |-> old_indices]
    ELSE LET rows == valid_rows(file.content)
             idx  == resolve_indices(rows)
             data == slice(rows, start_row_of(rows), MAX_DISPLAY_ROWS)
         IN  [tbl     |-> [i \in 1..Len(data) |-> table_row(data[i], idx)],
              status  |-> "loaded",
              indices |-> idx]

------------------------------------------------------------------------------
(* The external process: launch, exit, and the two completion detectors. *)

\* The most Popen calls of a run.
MaxPopen == 2

\* What cfst.exe can leave in result.csv: a header and one result, or no line.
ToolResults == {
    File(<< << <<"I", "P">>, <<"C", "o", "l", "o">> >>,
            << <<"1", ".", "1", ".", "1", ".", "1">>, <<"L", "A", "X">> >> >>),
    File(<< >>) }

\* What cfst.exe can leave in region.csv.
ToolRegions == {
    File(<< << <<"1", ".", "1", ".", "1", ".", "1">>, <<"L", "A", "X">> >> >>) }

\* The region_ok.txt of an earlier export.
OldRegionOk == File(<< <<"1", ".", "1", ".", "1", ".", "1">> >>)

Pids == 1..Len(procs)

button(kind) == IF kind = "scan" THEN btn_scan ELSE btn_speed

\* Popen.poll() is not None.
exited(p) == procs[p].exited

\* The state a handler leaves alone unless it says otherwise.
UnchangedLists == UNCHANGED << lst_regions, exported, region_ok, cfst_exe, ip_txt >>

\* _load_result_into_table() as a step.
LoadTable(file) ==
    \E readable \in BOOLEAN : \E loaded \in { load_result(file, readable, indices) } :
        /\ tbl_result' = loaded.tbl
        /\ status' = loaded.status
        /\ indices' = loaded.indices

\* on_done of on_scan.
on_done_scan ==
    /\ btn_scan' = TRUE
    /\ current_process' = 0
    /\ status' = IF region_csv # NoFile THEN "scan_done" ELSE "ready_exit_code"
    /\ UNCHANGED << btn_speed, tbl_result, indices >>

\* on_done of on_speed.
on_done_speed ==
    /\ btn_speed' = TRUE
    /\ current_process' = 0
    /\ IF result_csv # NoFile
       THEN LoadTable(result_csv)
       ELSE status' = "ready_exit_code" /\ UNCHANGED << tbl_result, indices >>
    /\ UNCHANGED btn_scan

\* The on_done closure of the handler of that kind.
on_done(kind) == IF kind = "scan" THEN on_done_scan ELSE on_done_speed

\* monitor_process_and_restore's runner: poll() returns the exit code, the
\* thread posts the callback to the GUI thread and ends.
PollThread(p) ==
    /\ procs[p].thread = "polling"
    /\ exited(p)
    /\ procs' = [procs EXCEPT ![p].thread = "posted"]
    /\ UNCHANGED << btn_scan, btn_speed, current_process, ui_timer, popen_calls,
                    dialog, status, region_csv, result_csv, tbl_result, indices >>
    /\ UnchangedLists

\* The GUI thread runs the callback the poll thread of p posted: on_done of
\* the handler that launched p. It runs under an open message box too: the
\* box spins the event loop.
PollCallback(p) ==
    /\ procs[p].thread = "posted"
    /\ on_done(procs[p].kind)
    /\ procs' = [procs EXCEPT ![p].thread = "done", ![p].on_done_runs = @ + 1]
    /\ UNCHANGED << ui_timer, popen_calls, dialog, region_csv, result_csv >>
    /\ UnchangedLists

\* ui_check that returns without stopping the timer when the process has
\* been reaped already.
ui_check_timer_left_running ==
    /\ ui_timer # "none"
    /\ IF current_process = 0
       THEN UNCHANGED << ui_timer, btn_scan, btn_speed, current_process, procs,
                         tbl_result, status, indices >>
       ELSE IF exited(current_process)
       THEN /\ on_done(ui_timer)
            /\ procs' = [procs EXCEPT ![current_process].on_done_runs = @ + 1]
            /\ ui_timer' = "none"
       ELSE UNCHANGED << ui_timer, btn_scan, btn_speed, current_process, procs,
                         tbl_result, status, indices >>
    /\ UNCHANGED << popen_calls, dialog, region_csv, result_csv >>
    /\ UnchangedLists

\* ui_check, the timer's 300 ms tick: the closure of the handler that created
\* the timer, with that handler's on_done. It polls whatever process
\* _current_process names now.
ui_check ==
    /\ ui_timer # "none"
    /\ IF current_process = 0
       THEN /\ ui_timer' = "none"
            /\ IF ui_timer = "speed" /\ result_csv # NoFile
               THEN LoadTable(result_csv)
               ELSE UNCHANGED << tbl_result, status, indices >>
            /\ UNCHANGED << btn_scan, btn_speed, current_process, procs >>
       ELSE IF exited(current_process)
       THEN /\ on_done(ui_timer)
            /\ procs' = [procs EXCEPT ![current_process].on_done_runs = @ + 1]
            /\ ui_timer' = "none"
       ELSE UNCHANGED << ui_timer, btn_scan, btn_speed, current_process, procs,
                         tbl_result, status, indices >>
    /\ UNCHANGED << popen_calls, dialog, region_csv, result_csv >>
    /\ UnchangedLists

\* The external process ends; it may have written its output file.
ProcExit(p) ==
    /\ ~exited(p)
    /\ procs' = [procs EXCEPT ![p].exited = TRUE]
    /\ IF procs[p].kind = "scan"
       THEN /\ region_csv' \in ToolRegions \cup { region_csv }
            /\ UNCHANGED result_csv
       ELSE /\ result_csv' \in ToolResults \cup { result_csv }
            /\ UNCHANGED region_csv
    /\ UNCHANGED << btn_scan, btn_speed, current_process, ui_timer, popen_calls,
                    dialog, status, tbl_result, indices >>
    /\ UnchangedLists

\* A process handle Popen returned, with its poll thread started.
new_proc(kind) == [kind |-> kind, exited |-> FALSE, thread |-> "polling", on_done_runs |-> 0]

\* on_scan with cfst.exe or ip.txt missing: the warning box opens.
scan_missing ==
    /\ dialog' = "scan_missing"
    /\ UNCHANGED << btn_scan, btn_speed, current_process, ui_timer, procs, popen_calls,
                    status, region_csv, result_csv, tbl_result, indices >>

\* scan_launch_failed with a second Popen call after the first one failed.
scan_launch_failed_retry ==
    /\ status' = "scan_running"
    /\ btn_scan' = FALSE
    /\ popen_calls' = popen_calls + 2
    /\ dialog' = "scan_launch_failed"
    /\ UNCHANGED << btn_speed, current_process, ui_timer, procs,
                    region_csv, result_csv, tbl_result, indices >>

\* on_scan when start_process_new_console fails: Popen raised and the
\* critical box is open, inside start_process_new_console.
scan_launch_failed ==
    /\ status' = "scan_running"
    /\ btn_scan' = FALSE
    /\ popen_calls' = popen_calls + 1
    /\ dialog' = "scan_launch_failed"
    /\ UNCHANGED << btn_speed, current_process, ui_timer, procs,
                    region_csv, result_csv, tbl_result, indices >>

\* on_scan when the process starts: the handle is stored, the poll thread
\* started, and the timer created when there is none.
scan_launched ==
    /\ status' = "scan_running"
    /\ btn_scan' = FALSE
    /\ popen_calls' = popen_calls + 1
    /\ procs' = Append(procs, new_proc("scan"))
    /\ current_process' = Len(procs) + 1
    /\ ui_timer' = IF ui_timer = "none" THEN "scan" ELSE ui_timer
    /\ UNCHANGED << btn_speed, dialog, region_csv, result_csv, tbl_result, indices >>

\* A click on btn_scan; launched is whether Popen succeeds.
on_scan(launched) ==
    /\ dialog = "none"
    /\ btn_scan
    /\ IF ~cfst_exe \/ ~ip_txt THEN scan_missing
       ELSE /\ popen_calls < MaxPopen
            /\ IF launched THEN scan_launched ELSE scan_launch_failed
    /\ UnchangedLists

\* speed_missing with the old result.csv removed before the files are looked for.
speed_missing_after_remove ==
    /\ dialog' = IF ~cfst_exe THEN "speed_missing_cfst" ELSE "speed_missing_region_ok"
    /\ result_csv' = NoFile
    /\ UNCHANGED << btn_scan, btn_speed, current_process, ui_timer, procs, popen_calls,
                    status, region_csv, tbl_result, indices >>

\* on_speed with cfst.exe or region_ok.txt missing: the box opens.
speed_missing ==
    /\ dialog' = IF ~cfst_exe THEN "speed_missing_cfst" ELSE "speed_missing_region_ok"
    /\ UNCHANGED << btn_scan, btn_speed, current_process, ui_timer, procs, popen_calls,
                    status, region_csv, result_csv, tbl_result, indices >>

\* os.remove(RESULT_CSV), its failure ignored.
remove_result(removed) ==
    result_csv' = IF removed THEN NoFile ELSE result_csv

speed_launch_failed ==
    /\ status' = "speed_running"
    /\ btn_speed' = FALSE
    /\ popen_calls' = popen_calls + 1
    /\ dialog' = "speed_launch_failed"
    /\ UNCHANGED << btn_scan, current_process, ui_timer, procs,
                    region_csv, tbl_result, indices >>

speed_launched ==
    /\ status' = "speed_running"
    /\ btn_speed' = FALSE
    /\ popen_calls' = popen_calls + 1
    /\ procs' = Append(procs, new_proc("speed"))
    /\ current_process' = Len(procs) + 1
    /\ ui_timer' = IF ui_timer = "none" THEN "speed" ELSE ui_timer
    /\ UNCHANGED << btn_scan, dialog, region_csv, tbl_result, indices >>

\* A click on btn_speed; removed is whether an existing result.csv could be
\* removed, launched whether Popen succeeds.
on_speed(launched, removed) ==
    /\ dialog = "none"
    /\ btn_speed
    /\ IF ~cfst_exe \/ region_ok = NoFile THEN speed_missing
       ELSE /\ popen_calls < MaxPopen
            /\ remove_result(removed)
            /\ IF launched THEN speed_launched ELSE speed_launch_failed
    /\ UNCHANGED << lst_regions, exported, region_ok, cfst_exe, ip_txt >>

\* The user closes the message box and the handler that opened it goes on
\* to its return.
CloseDialog ==
    /\ dialog # "none"
    /\ dialog' = "none"
    /\ btn_scan' = IF dialog = "scan_launch_failed" THEN TRUE ELSE btn_scan
    /\ btn_speed' = IF dialog = "speed_launch_failed" THEN TRUE ELSE btn_speed
    /\ status' = CASE dialog = "scan_missing"        -> "scan_cancelled"
                   [] dialog = "scan_launch_failed"  -> "launch_failed"
                   [] dialog = "speed_launch_failed" -> "speed_launch_failed"
                   [] OTHER                          -> status
    /\ UNCHANGED << current_process, ui_timer, procs, popen_calls, region_csv,
                    result_csv, tbl_result, indices >>
    /\ UnchangedLists

\* The window after __init__.
InitWindow ==
    /\ btn_scan = TRUE
    /\ btn_speed = TRUE
    /\ current_process = 0
    /\ ui_timer = "none"
    /\ procs = << >>
    /\ popen_calls = 0
    /\ dialog = "none"
    /\ status = "ready"
    /\ tbl_result = << >>
    /\ indices = [k \in {} |-> 0]
    /\ lst_regions = << >>
    /\ exported = 0

\* The window in a working directory with or without the files the handlers
\* look for.
Init ==
    /\ InitWindow
    /\ cfst_exe \in BOOLEAN
    /\ ip_txt \in BOOLEAN
    /\ region_csv = NoFile
    /\ region_ok \in { NoFile, OldRegionOk }
    /\ result_csv \in { NoFile } \cup ToolResults

Next ==
    \/ \E launched \in BOOLEAN : on_scan(launched)
    \/ \E launched \in BOOLEAN, removed \in BOOLEAN : on_speed(launched, removed)
    \/ \E p \in Pids : ProcExit(p)
    \/ \E p \in Pids : PollThread(p)
    \/ \E p \in Pids : PollCallback(p)
    \/ ui_check
    \/ CloseDialog

Spec == Init /\ [][Next]_vars

\* The scheduling the completion detectors run under: a poll thread that is
\* alive gets to run (it sleeps 0.2 s between polls), the GUI event loop runs
\* a callback that was posted to it, and the 300 ms timer ticks while it is
\* started. Clicks, the closing of a message box and the exit of the
\* external process are not owed.
Fairness ==
    /\ \A p \in 1..MaxPopen : WF_vars(p \in Pids /\ PollThread(p))
    /\ \A p \in 1..MaxPopen : WF_vars(p \in Pids /\ PollCallback(p))
    /\ WF_vars(ui_check)

SpecLive == Spec /\ Fairness

------------------------------------------------------------------------------
(* The launch and completion claims *)

\* A process is outstanding until it has exited and on_done has run for it.
outstanding(p) == ~exited(p) \/ procs[p].on_done_runs = 0

\* C1: at most one external process is outstanding at any time: no launch
\* happens while a process launched earlier is outstanding.
C1_AtMostOneOutstanding == Cardinality({ p \in Pids : outstanding(p) }) <= 1

\* C2: from its launch until its exit, the button that launched a process is
\* never enabled.
C2_LauncherDisabledWhileRunning ==
    \A p \in Pids : ~exited(p) => ~button(procs[p].kind)

\* C3: on_done runs, and clears _current_process, once per launched process:
\* after one detector has run it, the other does not run it again.
C3_OnDoneOncePerProcess == \A p \in Pids : procs[p].on_done_runs <= 1

MissingDialogs == { "scan_missing", "speed_missing_cfst", "speed_missing_region_ok" }

FailDialogs == { "scan_launch_failed", "speed_launch_failed" }

\* C4: a click that finds a required file missing changes nothing: neither
\* the step that reports it nor the handler's return after the box is closed
\* launches a process or changes _current_process, _ui_timer, the buttons or
\* result.csv.
C4_MissingFilesAbortCleanly ==
    [][ ( \/ dialog = "none" /\ dialog' \in MissingDialogs
          \/ dialog \in MissingDialogs /\ dialog' = "none" )
        => UNCHANGED << current_process, ui_timer, btn_scan, btn_speed, result_csv,
                        procs, popen_calls >> ]_vars

\* on_speed was clicked with a scan running and an earlier result.csv there,
\* and region_ok.txt was missing.
C4_Witness ==
    /\ dialog = "speed_missing_region_ok"
    /\ result_csv.exists
    /\ current_process # 0
    /\ ui_timer # "none"
    /\ ~btn_scan

\* C5: a failed launch makes one Popen call, stores no handle, starts no poll
\* thread and no timer, and the handler's return enables the button again.
C5_LaunchFailureNotRetried ==
    [][ /\ (dialog = "none" /\ dialog' \in FailDialogs)
           => /\ popen_calls' = popen_calls + 1
              /\ UNCHANGED << current_process, ui_timer, procs >>
        /\ (dialog \in FailDialogs /\ dialog' = "none")
           => /\ IF dialog = "scan_launch_failed" THEN btn_scan' ELSE btn_speed'
              /\ UNCHANGED << current_process, ui_timer, procs, popen_calls >> ]_vars

\* A scan launch failed while a speed test was running, and on_scan returned.
C5_Witness ==
    /\ status = "launch_failed"
    /\ dialog = "none"
    /\ btn_scan
    /\ current_process # 0
    /\ procs[current_process].kind = "speed"
    /\ popen_calls = 2

------------------------------------------------------------------------------
(* on_stat and on_region_double *)

UNKNOWN == <<"U", "N", "K", "N", "O", "W", "N">>

\* The header words on_stat takes for the region column and the IP column.
region_words == << <<"c", "o", "l", "o">>, <<"c", "f", "c", "o", "l", "o">>,
                   <<"r", "e", "g", "i", "o", "n">>, <<"p", "l", "a", "c", "e">>,
                   <<"c", "o", "u", "n", "t", "r", "y">> >>

ip_words == << <<"i", "p">>, <<"a", "d", "d", "r", "e", "s", "s">> >>

any_word_in(words, h) == \E k \in 1..Len(words) : contains(h, words[k])

\* The last header cell that holds one of the words, -1 when none does: the
\* header loop has no break.
last_header_hit(header, words) ==
    LET hit == { i \in 0..(Len(header) - 1) :
                    any_word_in(words, lower(strip(header[i + 1]))) }
    IN  IF hit = {} THEN -1 ELSE MaxOf(hit)

stat_region_idx(rows) == last_header_hit(rows[1], region_words)

stat_start_row(rows) ==
    IF stat_region_idx(rows) # -1 \/ last_header_hit(rows[1], ip_words) # -1 THEN 1 ELSE 0

\* ip_idx: from the header, else the first cell of the first data row that
\* looks like an IP, else 0.
stat_ip_idx(rows) ==
    LET from_header == last_header_hit(rows[1], ip_words)
        start       == stat_start_row(rows)
        first       == IF Len(rows) > start THEN rows[start + 1] ELSE << >>
        hit         == { i \in 0..(Len(first) - 1) : looks_like_ip(first[i + 1]) }
    IN  IF from_header # -1 THEN from_header
        ELSE IF hit # {} THEN MinOf(hit)
        ELSE 0

\* rows[start_row:]
stat_data_rows(rows) ==
    LET start == stat_start_row(rows)
    IN  IF start >= Len(rows) THEN << >> ELSE SubSeq(rows, start + 1, Len(rows))

row_ip(r, ip_idx) == IF ip_idx < Len(r) THEN strip(r[ip_idx + 1]) ELSE << >>

\* A cell that can stand for the region: 2 to 4 characters, all alphanumeric.
is_token(s) == 2 <= Len(s) /\ Len(s) <= 4 /\ \A i \in 1..Len(s) : isalnum_char(s[i])

\* row_region with the scan for a token left out once a region column is
\* resolved.
row_region_column_only(r, region_idx) ==
    LET cell == IF region_idx # -1 /\ region_idx < Len(r)
                THEN strip(r[region_idx + 1]) ELSE << >>
        toks == { i \in 1..Len(r) : is_token(strip(r[i])) }
    IN  IF cell # << >> THEN cell
        ELSE IF region_idx = -1 /\ toks # {} THEN strip(r[MinOf(toks)])
        ELSE UNKNOWN

\* The region code of a row: the cell at region_idx, else the first token of
\* the row, else UNKNOWN.
row_region(r, region_idx) ==
    LET cell == IF region_idx # -1 /\ region_idx < Len(r)
                THEN strip(r[region_idx + 1]) ELSE << >>
        toks == { i \in 1..Len(r) : is_token(strip(r[i])) }
    IN  IF cell # << >> THEN cell
        ELSE IF toks # {} THEN strip(r[MinOf(toks)])
        ELSE UNKNOWN

\* counter[region].append(ip): counter keeps its keys in insertion order.
counter_append(counter, code, ip) ==
    IF \E i \in 1..Len(counter) : counter[i].code = code
    THEN [i \in 1..Len(counter) |->
            IF counter[i].code = code
            THEN [counter[i] EXCEPT !.ips = Append(@, ip)]
            ELSE counter[i]]
    ELSE Append(counter, [code |-> code, ips |-> << ip >>])

\* add_row without the "if ip" guard.
add_row_unguarded(counter, r, ip_idx, region_idx) ==
    IF Len(r) = 0 THEN counter
    ELSE counter_append(counter, row_region(r, region_idx), row_ip(r, ip_idx))

\* The row's part in the loop over the data rows: an empty row and a row with
\* no IP leave the counter alone.
add_row(counter, r, ip_idx, region_idx) ==
    LET ip == row_ip(r, ip_idx)
    IN  IF Len(r) = 0 THEN counter
        ELSE IF ip # << >> THEN counter_append(counter, row_region(r, region_idx), ip)
        ELSE counter

RECURSIVE count_rows(_, _, _)
count_rows(data, ip_idx, region_idx) ==
    IF data = << >> THEN << >>
    ELSE add_row(count_rows(SubSeq(data, 1, Len(data) - 1), ip_idx, region_idx),
                 data[Len(data)], ip_idx, region_idx)

\* insert_desc of a sort that is not stable: x goes ahead of its ties.
insert_desc_ahead_of_ties(sorted, x) ==
    LET ahead == { i \in 1..Len(sorted) : sorted[i].count > x.count }
        n     == IF ahead = {} THEN 0 ELSE MaxOf(ahead)
    IN  SubSeq(sorted, 1, n) \o << x >> \o SubSeq(sorted, n + 1, Len(sorted))

\* Where list.sort(key=count, reverse=True) puts x among items already in
\* order: behind every item whose count is not smaller.
insert_desc(sorted, x) ==
    LET ahead == { i \in 1..Len(sorted) : sorted[i].count >= x.count }
        n     == IF ahead = {} THEN 0 ELSE MaxOf(ahead)
    IN  SubSeq(sorted, 1, n) \o << x >> \o SubSeq(sorted, n + 1, Len(sorted))

\* items.sort(key=lambda x: x[2], reverse=True): descending and stable.
RECURSIVE sort_by_count(_)
sort_by_count(items) ==
    IF items = << >> THEN << >>
    ELSE insert_desc(sort_by_count(SubSeq(items, 1, Len(items) - 1)), items[Len(items)])

\* items.append((code, country, count, ips)) for each key of the counter.
counter_items(counter) ==
    [i \in 1..Len(counter) |->
        [code    |-> counter[i].code,
         country |-> country_of(counter[i].code),
         count   |-> Len(counter[i].ips),
         ips     |-> counter[i].ips]]

\* The list items, numbered from 1 in the sorted order.
ranked(sorted) ==
    [i \in 1..Len(sorted) |->
        [rank    |-> i,
         code    |-> sorted[i].code,
         country |-> sorted[i].country,
         count   |-> sorted[i].count,
         ips     |-> sorted[i].ips]]

\* The region list of a data row sequence: one item per region, ranked.
region_items(data, ip_idx, region_idx) ==
    ranked(sort_by_count(counter_items(count_rows(data, ip_idx, region_idx))))

\* A click on btn_stat; readable is whether region.csv could be opened and
\* read.
on_stat(readable) ==
    /\ dialog = "none"
    /\ IF ~region_csv.exists
       THEN dialog' = "stat_no_file" /\ UNCHANGED << lst_regions, exported, status >>
       ELSE IF ~readable
       THEN dialog' = "stat_read_failed" /\ UNCHANGED << lst_regions, exported, status >>
       ELSE IF region_csv.content = << >>
       THEN dialog' = "stat_empty" /\ UNCHANGED << lst_regions, exported, status >>
       ELSE /\ lst_regions' = region_items(stat_data_rows(region_csv.content),
                                           stat_ip_idx(region_csv.content),
                                           stat_region_idx(region_csv.content))
            /\ exported' = 0
            /\ status' = "stat_done"
            /\ UNCHANGED dialog
    /\ UNCHANGED << btn_scan, btn_speed, current_process, ui_timer, procs, popen_calls,
                    cfst_exe, ip_txt, region_csv, region_ok, result_csv, tbl_result,
                    indices >>

\* sorted(S) of a set of strings.
RECURSIVE sorted_set(_)
sorted_set(S) ==
    IF S = {} THEN << >>
    ELSE LET m == CHOOSE x \in S : \A y \in S : x = y \/ str_lt(x, y)
         IN  << m >> \o sorted_set(S \ { m })

\* The stripped, non-empty entries in first-seen order, each once.
RECURSIVE first_seen(_)
first_seen(ips) ==
    IF ips = << >> THEN << >>
    ELSE LET before == first_seen(SubSeq(ips, 1, Len(ips) - 1))
             ip     == strip(ips[Len(ips)])
         IN  IF ip = << >> \/ ip \in Range(before) THEN before ELSE Append(before, ip)

\* uniq_ips without the sort.
uniq_ips_unsorted(ips) == first_seen(ips)

\* uniq = sorted({ip.strip() for ip in ips if ip.strip()})
uniq_ips(ips) ==
    sorted_set({ strip(ips[i]) : i \in { j \in 1..Len(ips) : strip(ips[j]) # << >> } })

\* A double click on item i of the region list; written is whether
\* region_ok.txt could be opened for writing.
on_region_double(i, written) ==
    /\ dialog = "none"
    /\ i \in 1..Len(lst_regions)
    /\ IF written
       THEN /\ region_ok' = File(uniq_ips(lst_regions[i].ips))
            /\ exported' = i
            /\ status' = "region_imported"
            /\ UNCHANGED dialog
       ELSE /\ dialog' = "save_failed"
            /\ UNCHANGED << region_ok, status, exported >>
    /\ UNCHANGED << btn_scan, btn_speed, current_process, ui_timer, procs, popen_calls,
                    cfst_exe, ip_txt, region_csv, result_csv, tbl_result, indices,
                    lst_regions >>

------------------------------------------------------------------------------
(* The files the resolver and the aggregator are run on *)

\* The most rows of a result.csv body, and of a region.csv.
MaxResultRows == 2

MaxRegionRows == 4

\* The most rows of a region.csv with rows of three cells.
MaxWideRows == 3

c_IP == <<"I", "P">>

c_Colo == <<"C", "o", "l", "o">>

c_ip1 == <<"1", ".", "1", ".", "1", ".", "1">>

c_ip2 == <<" ", "1", "0", ".", "0", ".", "0", ".", "2">>

c_bad == <<"9", "9", "9", ".", "1", ".", "1", ".", "1">>

c_v6 == <<":", ":", "1">>

c_ms == <<"2", "0", "m", "s">>

c_LAX == <<"L", "A", "X">>

c_HKG == <<"H", "K", "G">>

c_empty == << >>

\* Rows of result.csv: headers, results, short rows, a blank line, and a row
\* wider than every fallback position.
ResultRows ==
    { << a, b >> : a \in { c_IP, c_ip1, c_LAX, c_empty },
                   b \in { c_Colo, c_ip2, c_bad, c_empty } }
    \cup { << c_LAX >>, << >>,
           << c_empty, c_empty, c_empty, c_empty, c_empty, c_empty, c_HKG, c_v6 >> }

\* A row no header alias and no IP is in.
PlainRow == << c_LAX, c_ms >>

SeqsUpTo(S, n) == UNION { [1..k -> S] : k \in 1..n }

\* body with pad copies of PlainRow put in behind its first at rows.
padded(body, at, pad) ==
    SubSeq(body, 1, at) \o [i \in 1..pad |-> PlainRow] \o SubSeq(body, at + 1, Len(body))

ResultFiles ==
    { NoFile, File(<< >>) }
    \cup { File(padded(body, at, pad)) :
             body \in SeqsUpTo(ResultRows, MaxResultRows),
             at \in { 0, 1 }, pad \in { 0, SAMPLE_ROWS } }

\* Rows of region.csv: a header, IPs with a region, an IP alone, a row with
\* no IP.
RegionRows ==
    { << c_ip1, c_LAX >>, << c_ip2, c_LAX >>, << c_ip1, c_HKG >>, << c_ip1 >>,
      << c_empty, c_LAX >>, << c_IP, c_Colo >> }

\* Rows of region.csv with cells beside the IP and region columns: an IP
\* behind a blank first cell, a region code behind a blank second cell, a
\* latency in front of the region code, a row of one cell.
WideRows ==
    { << c_IP, c_Colo >>, << c_empty, c_LAX, c_ip1 >>, << c_ip1, c_empty, c_HKG >>,
      << c_ip1, c_ms, c_LAX >>, << c_ip1 >>, << c_ip2, c_LAX >> }

RegionFiles ==
    { NoFile, File(<< >>) }
    \cup { File(body) : body \in SeqsUpTo(RegionRows, MaxRegionRows) }
    \cup { File(body) : body \in SeqsUpTo(WideRows, MaxWideRows) }

InitFiles ==
    /\ cfst_exe = TRUE
    /\ ip_txt = TRUE
    /\ region_ok = NoFile

\* _load_result_into_table run on the result.csv that is there.
load_result_into_table ==
    /\ dialog = "none"
    /\ LoadTable(result_csv)
    /\ UNCHANGED << btn_scan, btn_speed, current_process, ui_timer, procs, popen_calls,
                    dialog, cfst_exe, ip_txt, region_csv, region_ok, result_csv,
                    lst_regions, exported >>

InitResult ==
    /\ InitWindow
    /\ InitFiles
    /\ region_csv = NoFile
    /\ result_csv \in ResultFiles

NextResult == load_result_into_table

\* _load_result_into_table on every result.csv of ResultFiles.
SpecResult == InitResult /\ [][NextResult]_vars

InitStat ==
    /\ InitWindow
    /\ InitFiles
    /\ result_csv = NoFile
    /\ region_csv \in RegionFiles

NextStat ==
    \/ \E readable \in BOOLEAN : on_stat(readable)
    \/ \E i \in 1..Len(lst_regions), written \in BOOLEAN : on_region_double(i, written)
    \/ CloseDialog

\* on_stat and on_region_double on every region.csv of RegionFiles.
SpecStat == InitStat /\ [][NextStat]_vars

------------------------------------------------------------------------------
(* The column resolution claims *)

\* The rows _load_result_into_table resolves the columns of.
result_rows == valid_rows(result_csv.content)

\* C6: column resolution is total and in bounds: once a non-empty row set is
\* loaded, each of ip, avg_rtt, down_mb, region has an index from 0 up to,
\* not including, the cell count of the widest row.
C6_IndicesInBounds ==
    status = "loaded" =>
        LET widest == max_len(result_rows)
        IN  \A k \in Range(Keys) :
                /\ k \in DOMAIN indices
                /\ 0 <= indices[k]
                /\ indices[k] < widest

\* Rows of differing lengths were loaded, ip came from the content scan and
\* region from the fallback, clamped to a column one of the rows does not have.
C6_Witness ==
    /\ status = "loaded"
    /\ LET rows == result_rows
       IN  /\ index_origin(rows, "ip") = "sniff"
           /\ index_origin(rows, "region") = "fallback"
           /\ indices["region"] < FALLBACK_REGION
           /\ \E i \in 1..Len(rows) : Len(rows[i]) <= indices["region"]

ip_at(r, c) == c < Len(r) /\ looks_like_ip(r[c + 1])

\* The columns of the sampled rows, by whether every row, or some row, of
\* the sample looks like an IP there.
columns_every(sample, width) ==
    { c \in 0..(width - 1) : \A j \in 1..Len(sample) : ip_at(sample[j], c) }

columns_some(sample, width) ==
    { c \in 0..(width - 1) : \E j \in 1..Len(sample) : ip_at(sample[j], c) }

lowest_or_fallback(columns) == IF columns # {} THEN MinOf(columns) ELSE FALLBACK_IP

------------------------------------------------------------------------------
(* The aggregation and export claims *)

\* on_stat has filled the region list from the region.csv that is there.
StatRan == status \in { "stat_done", "region_imported" }

\* The IP and the region of each data row, in row order.
RECURSIVE row_keys(_, _, _)
row_keys(data, ipx, rgx) ==
    IF data = << >> THEN << >>
    ELSE Append(row_keys(SubSeq(data, 1, Len(data) - 1), ipx, rgx),
                [ip     |-> row_ip(data[Len(data)], ipx),
                 region |-> row_region(data[Len(data)], rgx)])

\* The row keys of the region file.
stat_keys ==
    row_keys(stat_data_rows(region_csv.content), stat_ip_idx(region_csv.content),
             stat_region_idx(region_csv.content))

\* The IPs of the rows of a region, in row order.
ips_of(keys, code) ==
    LET own == SelectSeq(keys, LAMBDA r : r.ip # << >> /\ r.region = code)
    IN  [k \in 1..Len(own) |-> own[k].ip]

\* The first row that puts an IP into the region.
first_row(keys, code) ==
    CHOOSE n \in 1..Len(keys) :
        /\ keys[n].ip # << >> /\ keys[n].region = code
        /\ \A m \in 1..(n - 1) : keys[m].ip = << >> \/ keys[m].region # code

RECURSIVE total_count(_)
total_count(items) ==
    IF items = << >> THEN 0
    ELSE items[Len(items)].count + total_count(SubSeq(items, 1, Len(items) - 1))

\* The list items are those of the rows: no region twice, the list of a
\* region the IPs of its rows in row order and not empty, every row with an
\* IP in a list, the counts the number of rows with an IP.
partitions(items, keys) ==
    /\ \A i, j \in 1..Len(items) : items[i].code = items[j].code => i = j
    /\ \A i \in 1..Len(items) :
           /\ items[i].ips = ips_of(keys, items[i].code)
           /\ items[i].ips # << >>
    /\ \A n \in 1..Len(keys) :
           keys[n].ip # << >>
               => \E i \in 1..Len(items) : items[i].code = keys[n].region
    /\ total_count(items) = Len(SelectSeq(keys, LAMBDA r : r.ip # << >>))

\* C7: region aggregation partitions the rows: no region is listed twice,
\* the list of a region holds the IPs of exactly the data rows with a
\* non-empty IP and that region, in row order, every such row has its region
\* listed, the counts add up to the number of such rows, and the rows with
\* no IP can be left out without changing the list.
C7_AggregationPartitionsRows ==
    StatRan =>
        LET data == stat_data_rows(region_csv.content)
            ipx  == stat_ip_idx(region_csv.content)
            rgx  == stat_region_idx(region_csv.content)
        IN  /\ partitions(lst_regions, row_keys(data, ipx, rgx))
            /\ lst_regions
                   = region_items(SelectSeq(data, LAMBDA r : row_ip(r, ipx) # << >>),
                                  ipx, rgx)

\* Two regions are listed, one with two IPs, and a data row with cells had no IP.
C7_Witness ==
    /\ StatRan
    /\ Len(lst_regions) >= 2
    /\ \E i \in 1..Len(lst_regions) : Len(lst_regions[i].ips) >= 2
    /\ LET data == stat_data_rows(region_csv.content)
           ipx  == stat_ip_idx(region_csv.content)
       IN  \E n \in 1..Len(data) : Len(data[n]) > 0 /\ row_ip(data[n], ipx) = << >>

\* Descending by count, ties in the order of their first rows.
sorted_stable(items, keys) ==
    \A i \in 1..(Len(items) - 1) :
        /\ items[i].count >= items[i + 1].count
        /\ items[i].count = items[i + 1].count
               => first_row(keys, items[i].code) < first_row(keys, items[i + 1].code)

\* C8: the region list is in descending order of IP count, regions with the
\* same count in the order of their first row in the file, and the items are
\* ranked 1..N in that order, each with the length of its list as its count.
C8_SortedByCountStable ==
    StatRan =>
        /\ sorted_stable(lst_regions, stat_keys)
        /\ \A i \in 1..Len(lst_regions) :
               /\ lst_regions[i].rank = i
               /\ lst_regions[i].count = Len(lst_regions[i].ips)

\* Three regions are listed, two of them with the same count, and the first
\* of the list is not the first of the file.
C8_Witness ==
    /\ StatRan
    /\ Len(lst_regions) >= 3
    /\ \E i, j \in 1..Len(lst_regions) :
           i < j /\ lst_regions[i].count = lst_regions[j].count
    /\ \E j \in 2..Len(lst_regions) :
           first_row(stat_keys, lst_regions[j].code)
               < first_row(stat_keys, lst_regions[1].code)

\* The lists with the entries of ips, each at least once, in any order, up
\* to one entry longer.
rearranged(ips) ==
    { l \in UNION { [1..k -> Range(ips)] : k \in 1..(Len(ips) + 1) } :
        Range(l) = Range(ips) }

\* C9: region_ok.txt, once written for a region, holds exactly the distinct
\* non-empty stripped IPs of the region's list, one per line, in ascending
\* string order; the list with entries repeated or reordered gives the same
\* lines.
C9_ExportSortedDistinct ==
    exported # 0 =>
        LET ips   == lst_regions[exported].ips
            lines == region_ok.content
        IN  /\ region_ok.exists
            /\ Range(lines) = { strip(ips[j]) : j \in 1..Len(ips) } \ { << >> }
            /\ \A k \in 1..(Len(lines) - 1) : str_lt(lines[k], lines[k + 1])
            /\ \A l \in rearranged(ips) : uniq_ips(l) = lines

\* A region was exported whose list has an IP twice and starts with an IP
\* that is not the first line of the file.
C9_Witness ==
    /\ exported # 0
    /\ Len(lst_regions[exported].ips) > Len(region_ok.content)
    /\ Len(region_ok.content) >= 2
    /\ lst_regions[exported].ips[1] # region_ok.content[1]


------------------------------------------------------------------------------
(* The per-row IP and region claims *)

\* The IP of a row as claimed: the cell at the IP index, and with that cell
\* blank or absent the first cell of the row that looks like an IP.
ip_or_first_ip_cell(r, ipx) ==
    LET cell == IF ipx < Len(r) THEN strip(r[ipx + 1]) ELSE << >>
        hits == { i \in 1..Len(r) : looks_like_ip(r[i]) }
    IN  IF cell # << >> THEN cell
        ELSE IF hits # {} THEN strip(r[MinOf(hits)])
        ELSE << >>

\* The data rows, by position, with an IP as claimed.
rows_with_claimed_ip(data, ipx) ==
    { n \in 1..Len(data) : ip_or_first_ip_cell(data[n], ipx) # << >> }

\* C11: the IP of a data row is the cell at the resolved IP index and, with
\* that cell blank or absent, the first cell of the row that looks like an
\* IP: every row one of the two gives an IP has that IP in the list of its
\* region, and only a row neither gives an IP is skipped.
C11_RowIpFallsBackToFirstIpCell ==
    StatRan =>
        LET data == stat_data_rows(region_csv.content)
            ipx  == stat_ip_idx(region_csv.content)
            rgx  == stat_region_idx(region_csv.content)
        IN  \A n \in rows_with_claimed_ip(data, ipx) :
                \E i \in 1..Len(lst_regions) :
                    /\ lst_regions[i].code = row_region(data[n], rgx)
                    /\ \E k \in 1..Len(lst_regions[i].ips) :
                           lst_regions[i].ips[k] = ip_or_first_ip_cell(data[n], ipx)

\* The trimmed cells of a row that can stand for a region, in column order:
\* 2 to 4 characters, letters and digits only.
region_tokens(r) ==
    SelectSeq([i \in 1..Len(r) |-> strip(r[i])],
              LAMBDA s : Len(s) \in 2..4 /\ Range(s) \subseteq AlnumChars)

\* The region code of a row as claimed.
region_or_first_token(r, rgx) ==
    LET cell == IF rgx >= 0 /\ rgx < Len(r) THEN strip(r[rgx + 1]) ELSE << >>
    IN  IF cell # << >> THEN cell
        ELSE IF region_tokens(r) # << >> THEN Head(region_tokens(r))
        ELSE UNKNOWN

\* The data rows, by position, on_stat takes an IP from.
rows_listed(data, ipx) == { n \in 1..Len(data) : row_ip(data[n], ipx) # << >> }

\* C12: the region code of a data row is the trimmed cell at the resolved
\* region index when that is not blank, otherwise, also with a region column
\* resolved, the first cell of the row in column order whose trimmed text has
\* 2 to 4 characters, all alphanumeric, and UNKNOWN when the row has no such
\* cell: each row's IP is in the list of that region, and no other region is
\* listed.
C12_RegionFallsBackPerRow ==
    StatRan =>
        LET data == stat_data_rows(region_csv.content)
            ipx  == stat_ip_idx(region_csv.content)
            rgx  == stat_region_idx(region_csv.content)
        IN  /\ \A n \in rows_listed(data, ipx) :
                   \E i \in 1..Len(lst_regions) :
                       /\ lst_regions[i].code = region_or_first_token(data[n], rgx)
                       /\ \E k \in 1..Len(lst_regions[i].ips) :
                              lst_regions[i].ips[k] = row_ip(data[n], ipx)
            /\ \A i \in 1..Len(lst_regions) :
                   /\ lst_regions[i].count
                          = Cardinality({ n \in rows_listed(data, ipx) :
                                region_or_first_token(data[n], rgx) = lst_regions[i].code })
                   /\ lst_regions[i].count > 0

\* The header gave a region column; one listed row has a blank cell there
\* and is listed under a code from another of its cells, one is too short to
\* reach the column and is listed under UNKNOWN.
C12_Witness ==
    /\ StatRan
    /\ LET data == stat_data_rows(region_csv.content)
           ipx  == stat_ip_idx(region_csv.content)
           rgx  == stat_region_idx(region_csv.content)
       IN  /\ rgx >= 0
           /\ \E n \in rows_listed(data, ipx) :
                  /\ rgx < Len(data[n])
                  /\ strip(data[n][rgx + 1]) = << >>
                  /\ \E i \in 1..Len(lst_regions) :
                         /\ lst_regions[i].code # UNKNOWN
                         /\ lst_regions[i].code = region_or_first_token(data[n], rgx)
           /\ \E n \in rows_listed(data, ipx) :
                  /\ rgx >= Len(data[n])
                  /\ \E i \in 1..Len(lst_regions) : lst_regions[i].code = UNKNOWN

------------------------------------------------------------------------------
(* Completion *)

\* The completion of process p has been observed: on_done has run for it,
\* the button that launched it is enabled, no process is current and the
\* timer is stopped.
observed(p) ==
    /\ p \in Pids
    /\ procs[p].on_done_runs >= 1
    /\ button(procs[p].kind)
    /\ current_process = 0
    /\ ui_timer = "none"

\* C13: from the exit of a launched process on, as long as on_done has not
\* run for it, its completion is eventually observed (on_done has run for
\* it, its button is enabled, _current_process is None and the timer is
\* stopped), unless on_scan or on_speed calls Popen again in between.
C13_CompletionEventuallyObserved ==
    \A p \in 1..MaxPopen : \A n \in 1..MaxPopen :
        (p \in Pids /\ exited(p) /\ procs[p].on_done_runs = 0 /\ popen_calls = n)
            ~> (observed(p) \/ popen_calls > n)

\* The completion of a process was observed after the poll thread's callback
\* ran on_done for it, while another process was still running.
C13_Witness ==
    \E p \in Pids :
        /\ observed(p)
        /\ procs[p].thread = "done"
        /\ \E q \in Pids : ~exited(q)
====
